---------------------------- MODULE Spec2Model ----------------------------
(* Model of data_scraping_script_cares_data_tables_survival.py: a script      *)
(* that groups the positioned words of PDF pages into rows, pads and filters  *)
(* the rows and writes one CSV file per requested page.                       *)
(*                                                                            *)
(* Strings the script inspects character by character (cell texts, keywords)  *)
(* are sequences of one-character strings.  Vertical offsets ("top") are      *)
(* integers counting hundredths of a page unit; rounded offsets count tenths. *)
EXTENDS Integers, Sequences, FiniteSets, TLC

VARIABLES
    pages,          \* args.pages: the one-based page numbers of --pages
    all_headers,    \* args.headers: one header list per --headers occurrence
    doc,            \* the PDF: doc[i] is the word list of its i-th page
    page_numbers,   \* zero-based page indices (line 26)
    pc,             \* position of the script
    error,          \* the exception that ended the run, or "none"
    timestamp,      \* the run's timestamp (line 83)
    opened,         \* TRUE once pdfplumber.open was called (line 85)
    idx,            \* loop index of the page loop, one-based here
    headers,        \* headers of the current request (line 87)
    page,           \* words of the current page (line 88)
    raw_rows,       \* line 91
    max_cols,       \* line 94
    normalized,     \* line 95
    filtered,       \* line 98
    files,          \* the CSV files on disk
    accessed,       \* requests whose page was looked up, in order (line 88)
    written,        \* requests whose file was written, in order (line 103)
    row,            \* argument of a call of is_valid_data_row
    verdict         \* its return value

vars == << pages, all_headers, doc, page_numbers, pc, error, timestamp, opened,
           idx, headers, page, raw_rows, max_cols, normalized, filtered, files,
           accessed, written, row, verdict >>

driverVars == << pages, all_headers, doc, page_numbers, error, timestamp,
                 opened, idx, headers, page, raw_rows, max_cols, normalized,
                 filtered, files, accessed, written >>

-----------------------------------------------------------------------------
(* Bounds *)

MaxCells == 3       \* longest row handed to is_valid_data_row on its own
MaxWords == 3       \* most words on the page of a single-page run
MaxRequests == 2    \* most entries of --pages and of --headers
MaxDocPages == 2    \* most pages of the PDF

-----------------------------------------------------------------------------
(* Strings *)

UpperChars == << "A","B","C","D","E","F","G","H","I","J","K","L","M",
                 "N","O","P","Q","R","S","T","U","V","W","X","Y","Z" >>
LowerChars == << "a","b","c","d","e","f","g","h","i","j","k","l","m",
                 "n","o","p","q","r","s","t","u","v","w","x","y","z" >>

Whitespace == { " ", "\t", "\n" }

\* str.lower() on one character
LowerChar(c) ==
    IF \E i \in 1..Len(UpperChars) : UpperChars[i] = c
    THEN LowerChars[CHOOSE i \in 1..Len(UpperChars) : UpperChars[i] = c]
    ELSE c

\* str.lower()
Lower(s) == [i \in 1..Len(s) |-> LowerChar(s[i])]

\* str.strip(): drops leading and trailing whitespace
Strip(s) ==
    LET keep == { i \in 1..Len(s) : s[i] \notin Whitespace }
    IN IF keep = {} THEN << >>
       ELSE LET lo == CHOOSE i \in keep : \A j \in keep : i <= j
                hi == CHOOSE i \in keep : \A j \in keep : j <= i
            IN SubSeq(s, lo, hi)

\* " ".join(cells)
RECURSIVE JoinSpace(_)
JoinSpace(cells) ==
    IF cells = << >> THEN << >>
    ELSE IF Len(cells) = 1 THEN cells[1]
    ELSE cells[1] \o << " " >> \o JoinSpace(Tail(cells))

\* k in s
Contains(s, k) ==
    \E i \in 0..(Len(s) - Len(k)) : SubSeq(s, i + 1, i + Len(k)) = k

\* s.startswith(f)
StartsWith(s, f) == Len(f) <= Len(s) /\ SubSeq(s, 1, Len(f)) = f

-----------------------------------------------------------------------------
(* is_valid_data_row *)

allow_keywords ==
    << <<"u","t","s","t","e","i","n">>,
       <<"l","o","c","a","t","i","o","n"," ","o","f"," ","a","r","r","e","s","t">>,
       <<"a","r","r","e","s","t"," ","w","i","t","n","e","s","s","e","d">>,
       <<"b","y","s","t","a","n","d","e","r"," ","c","p","r">>,
       <<"c","p","r">>,
       <<"a","e","d">>,
       <<"h","y","p","o","t","h","e","r","m","i","a">>,
       <<"n","e","u","r","o","l","o","g","i","c","a","l">>,
       <<"c","a","t","e","g","o","r","y">>,
       <<"i","n","i","t","i","a","l"," ","a","r","r","e","s","t"," ","r","h","y","t","h","m">>,
       <<"s","h","o","c","k","a","b","l","e">> >>

banned_fragments ==
    << <<"s","u","r","v","i","v","a","l"," ","t","o">>,
       <<"t","o","t","a","l"," ","n">>,
       <<"r","o","s","c">>,
       <<"c","p","c">>,
       <<"a","d","m","i","s","s","i","o","n">>,
       <<"d","i","s","c","h","a","r","g","e">>,
       <<"s","a","m","p","l","e"," ","e","m","s">>,
       <<"p","a","g","e">>,
       <<"r","e","p","o","r","t">>,
       <<"c","a","r","e","s">>,
       <<"d","a","t","a"," ","d","e","f","i","n","i","t","i","o","n","s">> >>

footnote_starts ==
    << <<"i","n","c","l","u","s","i","o","n"," ","c","r","i","t","e","r","i","a">>,
       <<"*","b","y","s","t","a","n","d","e","r">>,
       <<"a","p","r","i","l">> >>

\* joined = " ".join(cell.lower().strip() for cell in row)
Joined(r) == JoinSpace([i \in 1..Len(r) |-> Strip(Lower(r[i]))])

StartsFootnote(joined) ==
    \E i \in 1..Len(footnote_starts) : StartsWith(joined, footnote_starts[i])

HasBanned(joined) ==
    \E i \in 1..Len(banned_fragments) : Contains(joined, banned_fragments[i])

HasAllow(joined) ==
    \E i \in 1..Len(allow_keywords) : Contains(joined, allow_keywords[i])

\* len([c for c in row if c.strip()])
NonEmptyCells(r) == Cardinality({ i \in 1..Len(r) : Strip(r[i]) # << >> })

\* Variants of is_valid_data_row with one defect each.
is_valid_allow_first(r) ==
    LET joined == Joined(r)
    IN IF StartsFootnote(joined) THEN FALSE
       ELSE IF HasAllow(joined) THEN TRUE
       ELSE IF HasBanned(joined) THEN FALSE
       ELSE IF NonEmptyCells(r) <= 1 THEN FALSE
       ELSE TRUE

is_valid_sparsity_first(r) ==
    LET joined == Joined(r)
    IN IF StartsFootnote(joined) THEN FALSE
       ELSE IF HasBanned(joined) THEN FALSE
       ELSE IF NonEmptyCells(r) <= 1 THEN FALSE
       ELSE IF HasAllow(joined) THEN TRUE
       ELSE TRUE

is_valid_no_footnote_check(r) ==
    LET joined == Joined(r)
    IN IF HasBanned(joined) THEN FALSE
       ELSE IF HasAllow(joined) THEN TRUE
       ELSE IF NonEmptyCells(r) <= 1 THEN FALSE
       ELSE TRUE

is_valid_data_row(r) ==
    LET joined == Joined(r)
    IN IF StartsFootnote(joined) THEN FALSE
       ELSE IF HasBanned(joined) THEN FALSE
       ELSE IF HasAllow(joined) THEN TRUE
       ELSE IF NonEmptyCells(r) <= 1 THEN FALSE
       ELSE TRUE

-----------------------------------------------------------------------------
(* Cell texts the rows of the validator specification are drawn from *)

S_empty     == << >>
S_blank     == <<" ">>
S_Utstein   == <<"U","t","s","t","e","i","n">>
S_cpr       == <<"c","p","r">>
S_survival  == <<"s","u","r","v","i","v","a","l"," ","t","o"," ","d","i","s","c","h","a","r","g","e">>
S_footnote  == <<"*","B","y","s","t","a","n","d","e","r"," ","C","P","R">>
S_Witnessed == <<"W","i","t","n","e","s","s","e","d">>
S_Yes       == <<"Y","e","s">>
S_Total     == <<"T","o","t","a","l">>
S_N         == <<"N">>

Cells == { S_empty, S_blank, S_Utstein, S_cpr, S_survival, S_footnote,
           S_Witnessed, S_Yes, S_Total, S_N }

RowsUpTo(n) == UNION { [1..k -> Cells] : k \in 1..n }

-----------------------------------------------------------------------------
(* Specification of is_valid_data_row called on its own *)

Idle ==
    /\ pages = << >> /\ all_headers = << >> /\ doc = << >>
    /\ page_numbers = << >> /\ error = "none" /\ timestamp = "unset"
    /\ opened = FALSE /\ idx = 0 /\ headers = << >> /\ page = << >>
    /\ raw_rows = << >> /\ max_cols = 0 /\ normalized = << >>
    /\ filtered = << >> /\ files = {} /\ accessed = << >> /\ written = << >>

InitValidator ==
    /\ Idle
    /\ pc = "call"
    /\ row \in RowsUpTo(MaxCells)
    /\ verdict = FALSE

CallValidator ==
    /\ pc = "call"
    /\ verdict' = is_valid_data_row(row)
    /\ pc' = "returned"
    /\ UNCHANGED << row, driverVars >>

NextValidator == CallValidator

SpecValidator == InitValidator /\ [][NextValidator]_vars

-----------------------------------------------------------------------------
(* extract_text_rows *)

\* round(top, 1): top in hundredths, result in tenths.  Python rounds the
\* exact value of the float half to even; an offset ending in 5 hundredths is
\* an exact tie only when it is a multiple of 0.25, which is the only kind of
\* tie the word sets below contain.
RoundTop(top) ==
    LET q == top \div 10
        r == top % 10
    IN IF r < 5 THEN q
       ELSE IF r > 5 THEN q + 1
       ELSE IF q % 2 = 0 THEN q ELSE q + 1

\* 'top' in word and 'text' in word
HasTopAndText(word) == "top" \in DOMAIN word /\ "text" \in DOMAIN word

EmptyDict == [y \in {} |-> << >>]

\* Variant of setdefault_append that puts the text in front of the row.
setdefault_prepend(lines, y, text) ==
    [k \in (DOMAIN lines) \cup {y} |->
        IF k = y
        THEN << text >> \o (IF y \in DOMAIN lines THEN lines[y] ELSE << >>)
        ELSE lines[k]]

\* lines_by_y.setdefault(y, []).append(text)
setdefault_append(lines, y, text) ==
    [k \in (DOMAIN lines) \cup {y} |->
        IF k = y
        THEN Append(IF y \in DOMAIN lines THEN lines[y] ELSE << >>, text)
        ELSE lines[k]]

\* the loop over words (lines 46-49), from the dict built so far
RECURSIVE group_words(_, _)
group_words(words, lines) ==
    IF words = << >> THEN lines
    ELSE LET word == Head(words)
         IN IF HasTopAndText(word)
            THEN group_words(Tail(words),
                     setdefault_append(lines, RoundTop(word.top), word.text))
            ELSE group_words(Tail(words), lines)

\* Variant of sorted_keys that lists the keys in descending order.
RECURSIVE descending_keys(_)
descending_keys(S) ==
    IF S = {} THEN << >>
    ELSE LET m == CHOOSE x \in S : \A y \in S : y <= x
         IN << m >> \o descending_keys(S \ {m})

\* sorted(lines_by_y.keys())
RECURSIVE sorted_keys(_)
sorted_keys(S) ==
    IF S = {} THEN << >>
    ELSE LET m == CHOOSE x \in S : \A y \in S : x <= y
         IN << m >> \o sorted_keys(S \ {m})

extract_text_rows(words) ==
    LET lines_by_y == group_words(words, EmptyDict)
        keys == sorted_keys(DOMAIN lines_by_y)
    IN [i \in 1..Len(keys) |-> lines_by_y[keys[i]]]

-----------------------------------------------------------------------------
(* The collaborators: the PDF's page list, pandas, the file system *)

\* pdf.pages[i] on a Python list of n pages: negative indices count from the end
ValidIndex(i, n) == -n <= i /\ i < n
PyIndex(list, i) == IF i >= 0 THEN list[i + 1] ELSE list[Len(list) + i + 1]

\* [""] * n
Blanks(n) == [i \in 1..(IF n > 0 THEN n ELSE 0) |-> << >>]

\* pd.DataFrame(rows, columns=headers) raises ValueError unless the widest row
\* has as many cells as there are columns (no rows at all is accepted)
FrameRaises(rows, cols) ==
    \E i \in 1..Len(rows) : Len(rows[i]) # Len(cols)

\* f"page_{page_num + 1}_cleaned_{timestamp}.csv"
OutputName(page_num, ts) == [page |-> page_num + 1, ts |-> ts]

Timestamp == "2026-11-02_10-00"

-----------------------------------------------------------------------------
(* Inputs *)

HeaderLists == { << "Category" >>, << "Category", "Value" >> }

Tops == { 996, 1004, 1025, 1031 }
Texts == { S_cpr, S_Yes }

Words == [top : Tops, text : Texts]
           \cup { [text |-> S_cpr] } \cup { [top |-> 1004] }

SeqsUpTo(S, n) == UNION { [1..k -> S] : k \in 0..n }

\* page layouts of the documents of multi-request runs
P_empty == << >>
P_one   == << [top |-> 1004, text |-> S_cpr] >>
P_line  == << [top |-> 1004, text |-> S_cpr], [top |-> 996, text |-> S_Yes] >>
P_rows  == << [top |-> 1025, text |-> S_Yes], [top |-> 1004, text |-> S_cpr] >>

Layouts == << P_line, P_rows, P_one, P_empty >>

Document(n, shift) ==
    [i \in 1..n |-> Layouts[((i - 1 + shift) % Len(Layouts)) + 1]]

PageArgs == -1..(MaxDocPages + 1)

-----------------------------------------------------------------------------
(* The script *)

Init ==
    /\ \E n \in 1..MaxDocPages, shift \in 0..(Len(Layouts) - 1) :
           doc = Document(n, shift)
    /\ pages \in UNION { [1..k -> PageArgs] : k \in 1..MaxRequests }
    /\ all_headers \in UNION { [1..k -> HeaderLists] : k \in 1..MaxRequests }
    /\ page_numbers = [i \in 1..Len(pages) |-> pages[i] - 1]
    /\ pc = "check"
    /\ error = "none" /\ timestamp = "unset" /\ opened = FALSE
    /\ idx = 0 /\ headers = << >> /\ page = << >>
    /\ raw_rows = << >> /\ max_cols = 0 /\ normalized = << >>
    /\ filtered = << >> /\ files = {} /\ accessed = << >> /\ written = << >>
    /\ row = << >> /\ verdict = FALSE

\* Variant of CheckHeaderCount that never raises.
CheckHeaderCountSkipped ==
    /\ pc = "check"
    /\ pc' = "open"
    /\ UNCHANGED << pages, all_headers, doc, page_numbers, error, timestamp,
                    opened, idx, headers, page, raw_rows, max_cols, normalized,
                    filtered, files, accessed, written, row, verdict >>

\* lines 30-31
CheckHeaderCount ==
    /\ pc = "check"
    /\ IF Len(all_headers) # Len(page_numbers)
       THEN pc' = "failed" /\ error' = "ValueError"
       ELSE pc' = "open" /\ error' = error
    /\ UNCHANGED << pages, all_headers, doc, page_numbers, timestamp,
                    opened, idx, headers, page, raw_rows, max_cols, normalized,
                    filtered, files, accessed, written, row, verdict >>

\* lines 83-85
OpenPdf ==
    /\ pc = "open"
    /\ timestamp' = Timestamp
    /\ opened' = TRUE
    /\ idx' = 1
    /\ pc' = "loop"
    /\ UNCHANGED << pages, all_headers, doc, page_numbers, error, headers,
                    page, raw_rows, max_cols, normalized, filtered, files,
                    accessed, written, row, verdict >>

\* Variant of LookupPage that skips a request whose page lookup fails.
LookupPageSkipping ==
    /\ pc = "loop"
    /\ IF idx > Len(page_numbers)
       THEN /\ pc' = "done"
            /\ UNCHANGED << idx, headers, page, accessed >>
       ELSE /\ headers' = all_headers[idx]
            /\ accessed' = Append(accessed, idx)
            /\ IF ValidIndex(page_numbers[idx], Len(doc))
               THEN /\ page' = PyIndex(doc, page_numbers[idx])
                    /\ pc' = "extract"
                    /\ idx' = idx
               ELSE /\ pc' = "loop"
                    /\ idx' = idx + 1
                    /\ page' = page
    /\ UNCHANGED << pages, all_headers, doc, page_numbers, error, timestamp,
                    opened, raw_rows, max_cols, normalized, filtered, files,
                    written, row, verdict >>

\* lines 86-88: the loop head, and the end of the with block
LookupPage ==
    /\ pc = "loop"
    /\ IF idx > Len(page_numbers)
       THEN /\ pc' = "done"
            /\ UNCHANGED << headers, page, accessed, error >>
       ELSE /\ headers' = all_headers[idx]
            /\ accessed' = Append(accessed, idx)
            /\ IF ValidIndex(page_numbers[idx], Len(doc))
               THEN /\ page' = PyIndex(doc, page_numbers[idx])
                    /\ pc' = "extract"
                    /\ error' = error
               ELSE /\ pc' = "failed"
                    /\ error' = "IndexError"
                    /\ page' = page
    /\ UNCHANGED << pages, all_headers, doc, page_numbers, timestamp, opened,
                    idx, raw_rows, max_cols, normalized, filtered, files,
                    written, row, verdict >>

\* line 91
ExtractRows ==
    /\ pc = "extract"
    /\ raw_rows' = extract_text_rows(page)
    /\ pc' = "normalize"
    /\ UNCHANGED << pages, all_headers, doc, page_numbers, error, timestamp,
                    opened, idx, headers, page, max_cols, normalized, filtered,
                    files, accessed, written, row, verdict >>

\* lines 94-95
NormalizeRows ==
    /\ pc = "normalize"
    /\ max_cols' = Len(headers)
    /\ normalized' = [i \in 1..Len(raw_rows) |->
                         raw_rows[i] \o Blanks(Len(headers) - Len(raw_rows[i]))]
    /\ pc' = "filter"
    /\ UNCHANGED << pages, all_headers, doc, page_numbers, error, timestamp,
                    opened, idx, headers, page, raw_rows, filtered, files,
                    accessed, written, row, verdict >>

\* line 98
FilterRows ==
    /\ pc = "filter"
    /\ filtered' = SelectSeq(normalized, is_valid_data_row)
    /\ pc' = "write"
    /\ UNCHANGED << pages, all_headers, doc, page_numbers, error, timestamp,
                    opened, idx, headers, page, raw_rows, max_cols, normalized,
                    files, accessed, written, row, verdict >>

\* Variant of WriteCsv that leaves an existing file of the same name alone.
WriteCsvKeepExisting ==
    /\ pc = "write"
    /\ IF FrameRaises(filtered, headers)
       THEN /\ pc' = "failed"
            /\ error' = "ValueError"
            /\ UNCHANGED << files, written, idx >>
       ELSE LET output_name == OutputName(page_numbers[idx], timestamp)
            IN /\ files' = IF \E f \in files : f.name = output_name
                           THEN files
                           ELSE files \cup { [name |-> output_name,
                                              headers |-> headers,
                                              rows |-> filtered] }
               /\ written' = Append(written, idx)
               /\ idx' = idx + 1
               /\ pc' = "loop"
               /\ error' = error
    /\ UNCHANGED << pages, all_headers, doc, page_numbers, timestamp, opened,
                    headers, page, raw_rows, max_cols, normalized, filtered,
                    accessed, row, verdict >>

\* lines 101-104; to_csv replaces a file of the same name
WriteCsv ==
    /\ pc = "write"
    /\ IF FrameRaises(filtered, headers)
       THEN /\ pc' = "failed"
            /\ error' = "ValueError"
            /\ UNCHANGED << files, written, idx >>
       ELSE LET output_name == OutputName(page_numbers[idx], timestamp)
            IN /\ files' = { f \in files : f.name # output_name }
                             \cup { [name |-> output_name,
                                     headers |-> headers,
                                     rows |-> filtered] }
               /\ written' = Append(written, idx)
               /\ idx' = idx + 1
               /\ pc' = "loop"
               /\ error' = error
    /\ UNCHANGED << pages, all_headers, doc, page_numbers, timestamp, opened,
                    headers, page, raw_rows, max_cols, normalized, filtered,
                    accessed, row, verdict >>

Next ==
    \/ CheckHeaderCount
    \/ OpenPdf
    \/ LookupPage
    \/ ExtractRows
    \/ NormalizeRows
    \/ FilterRows
    \/ WriteCsv

Spec == Init /\ [][Next]_vars

-----------------------------------------------------------------------------
(* The loop body on one page: a run with a single request, from line 91 on *)

InitPage ==
    /\ \E words \in SeqsUpTo(Words, MaxWords) :
           /\ doc = << words >>
           /\ page = words
    /\ \E h \in HeaderLists :
           /\ all_headers = << h >>
           /\ headers = h
    /\ pages = << 1 >>
    /\ page_numbers = << 0 >>
    /\ pc = "extract"
    /\ error = "none" /\ timestamp = Timestamp /\ opened = TRUE
    /\ idx = 1
    /\ raw_rows = << >> /\ max_cols = 0 /\ normalized = << >>
    /\ filtered = << >> /\ files = {} /\ accessed = << 1 >> /\ written = << >>
    /\ row = << >> /\ verdict = FALSE

NextPage ==
    \/ ExtractRows
    \/ NormalizeRows
    \/ FilterRows
    \/ WriteCsv

SpecPage == InitPage /\ [][NextPage]_vars

-----------------------------------------------------------------------------
(* Properties *)

Range(s) == { s[i] : i \in DOMAIN s }

\* C2 (keyword precedence): a row whose joined lowercase text contains both a
\* banned fragment and an allow-keyword is rejected by is_valid_data_row.
C2_BannedBeforeAllow ==
    (pc = "returned" /\ HasBanned(Joined(row)) /\ HasAllow(Joined(row)))
        => verdict = FALSE

C2_Witness ==
    /\ pc = "returned"
    /\ row = << S_survival, S_cpr >>
    /\ verdict = FALSE

\* C3 (sparsity bypass): a row whose joined text contains an allow-keyword,
\* does not start with a footnote prefix and contains no banned fragment is
\* accepted even with at most one non-empty cell; a row with at most one
\* non-empty cell and no allow-keyword is rejected.
C3_SparsityBypass ==
    pc = "returned" =>
        LET joined == Joined(row)
            sparse == Cardinality({ i \in 1..Len(row) :
                          \E j \in 1..Len(row[i]) :
                              row[i][j] \notin Whitespace }) <= 1
        IN /\ (HasAllow(joined) /\ ~StartsFootnote(joined) /\ ~HasBanned(joined))
                  => verdict = TRUE
           /\ (sparse /\ ~HasAllow(joined)) => verdict = FALSE

C3_Witness ==
    /\ pc = "returned"
    /\ row = << S_Utstein, S_empty, S_empty >>
    /\ verdict = TRUE

\* C4 as stated (allow-keyword guarantee): every row whose joined text
\* contains an allow-keyword is accepted, whatever else it contains.
C4_AllowAlwaysAccepted ==
    (pc = "returned" /\ HasAllow(Joined(row))) => verdict = TRUE

\* C4 as amended: a row whose joined text contains an allow-keyword is
\* accepted exactly when the text neither starts with a footnote prefix nor
\* contains a banned fragment.
C4_AllowAcceptedUnlessRejectedEarlier ==
    (pc = "returned" /\ HasAllow(Joined(row)))
        => (verdict <=> (~StartsFootnote(Joined(row)) /\ ~HasBanned(Joined(row))))

C4_Witness ==
    /\ pc = "returned"
    /\ row = << S_cpr, S_Yes >>
    /\ verdict = TRUE

\* The words of a page that carry both attributes, the rounded offsets they
\* occupy, and the texts reported at one rounded offset, in reported order.
ValidWords(words) == SelectSeq(words, HasTopAndText)
Keys(words) == { RoundTop(w.top) : w \in Range(ValidWords(words)) }
TextsAt(words, y) ==
    LET at == SelectSeq(ValidWords(words), LAMBDA w : RoundTop(w.top) = y)
    IN [i \in 1..Len(at) |-> at[i].text]

PaddedTo(r, n) == IF Len(r) >= n THEN r ELSE r \o [i \in 1..(n - Len(r)) |-> << >>]

RECURSIVE IsSubsequence(_, _)
IsSubsequence(a, b) ==
    IF a = << >> THEN TRUE
    ELSE IF b = << >> THEN FALSE
    ELSE IF Head(a) = Head(b) THEN IsSubsequence(Tail(a), Tail(b))
    ELSE IsSubsequence(a, Tail(b))

RECURSIVE SumLen(_)
SumLen(rows) == IF rows = << >> THEN 0 ELSE Len(Head(rows)) + SumLen(Tail(rows))

\* C1 (row length invariant): every normalized row of a page has exactly as
\* many cells as the page has headers, whatever the row's number of fragments.
C1_RowLength ==
    pc \in { "filter", "write" } =>
        \A i \in 1..Len(normalized) : Len(normalized[i]) = Len(headers)

\* C5 (order preservation): the candidate rows are the groups of the page in
\* strictly ascending order of rounded offset, whatever the order the
\* fragments were reported in, and the rows written to the page's file are
\* a subsequence of the padded candidate rows.
C5_OrderPreserved ==
    /\ pc # "extract" =>
           LET K == Keys(page)
           IN /\ Len(raw_rows) = Cardinality(K)
              /\ \A y \in K :
                     raw_rows[Cardinality({ k \in K : k < y }) + 1]
                         = TextsAt(page, y)
    /\ \A f \in files :
           IsSubsequence(f.rows, [i \in 1..Len(raw_rows) |->
                                     PaddedTo(raw_rows[i], Len(f.headers))])

C5_Witness ==
    /\ written = << 1 >>
    /\ Len(raw_rows) = 3
    /\ \E f \in files : Len(f.rows) = 2
    /\ Len(page) = 3
    /\ HasTopAndText(page[1]) /\ HasTopAndText(page[3])
    /\ RoundTop(page[1].top) > RoundTop(page[3].top)

\* C9 (row grouping): the candidate rows partition exactly the fragments
\* having both attributes: each row holds, in reported order, the texts of
\* all such fragments at one rounded offset, distinct rows have distinct
\* rounded offsets, nothing is lost or duplicated, and a page without such
\* fragments yields no row.
C9_Grouping ==
    pc # "extract" =>
        LET K == Keys(page)
        IN /\ (ValidWords(page) = << >> => raw_rows = << >>)
           /\ SumLen(raw_rows) = Len(ValidWords(page))
           /\ Len(raw_rows) = Cardinality(K)
           /\ \E ks \in [1..Len(raw_rows) -> K] :
                  /\ \A i, j \in 1..Len(raw_rows) : ks[i] = ks[j] => i = j
                  /\ \A i \in 1..Len(raw_rows) : raw_rows[i] = TextsAt(page, ks[i])

C9_Witness ==
    /\ pc # "extract"
    /\ \E i \in 1..Len(page) : ~HasTopAndText(page[i])
    /\ \E i \in 1..Len(raw_rows) :
           Len(raw_rows[i]) = 2 /\ raw_rows[i][1] # raw_rows[i][2]

\* C6 (configuration error): when the number of header lists differs from the
\* number of pages the run fails with a ValueError before the PDF is opened;
\* no page is looked up and no file is written.
C6_MismatchFailsEarly ==
    Len(all_headers) # Len(pages) =>
        /\ ~opened
        /\ accessed = << >>
        /\ files = {}
        /\ pc \in { "check", "failed" }
        /\ pc = "failed" => error = "ValueError"

C6_Witness ==
    /\ Len(all_headers) # Len(pages)
    /\ pc = "failed"
    /\ error = "ValueError"
    /\ ~opened

\* C7 (page index error): looking up a page number that exceeds the page
\* count, or that is zero or negative, fails the run with an IndexError, and
\* no file is written for that request.
C7_PageIndexError ==
    \A k \in Range(accessed) :
        pages[k] \notin 1..Len(doc) =>
            /\ pc = "failed"
            /\ error = "IndexError"
            /\ k \notin Range(written)

AllRequestsValid == \A k \in 1..Len(pages) : pages[k] \in 1..Len(doc)

\* C8 as stated (one file per request): a completed run over N valid requests
\* leaves N distinct files, one per entry of --pages, each with that entry's
\* header list, also when a page number is requested more than once.
C8_OneFilePerRequest ==
    (pc = "done" /\ AllRequestsValid) =>
        /\ Cardinality(files) = Len(pages)
        /\ \A k \in 1..Len(pages) :
               \E f \in files : /\ f.name = OutputName(pages[k] - 1, timestamp)
                                /\ f.headers = all_headers[k]

\* C8 as amended: a completed run over valid requests leaves exactly one file
\* per distinct page number of --pages, holding the table built from that
\* page with the header list of the last entry naming the page.
C8_OneFilePerPageNumber ==
    (pc = "done" /\ AllRequestsValid) =>
        /\ Cardinality(files) = Cardinality(Range(pages))
        /\ { f.name : f \in files }
               = { OutputName(p - 1, timestamp) : p \in Range(pages) }
        /\ \A f \in files :
               LET last == CHOOSE k \in 1..Len(pages) :
                               /\ pages[k] = f.name.page
                               /\ \A j \in 1..Len(pages) :
                                      pages[j] = f.name.page => j <= k
                   cand == extract_text_rows(doc[f.name.page])
               IN /\ f.headers = all_headers[last]
                  /\ f.rows = SelectSeq(
                         [i \in 1..Len(cand) |->
                             PaddedTo(cand[i], Len(all_headers[last]))],
                         is_valid_data_row)

C8_Witness ==
    /\ pc = "done"
    /\ AllRequestsValid
    /\ Len(pages) = 2
    /\ pages[1] = pages[2]
    /\ all_headers[1] # all_headers[2]
    /\ Cardinality(files) = 1

\* C10 (sequential prefix processing): requests are looked up and written in
\* the requested order, the file of request k is written before the page of
\* request k+1 is looked up, the written requests always form a prefix of the
\* request list, and after a page fails no file was written for its request
\* while the files of the earlier requests exist.
C10_PrefixProcessing ==
    /\ written = [i \in 1..Len(written) |-> i]
    /\ accessed = [i \in 1..Len(accessed) |-> i]
    /\ Len(accessed) \in { Len(written), Len(written) + 1 }
    /\ (pc = "failed" /\ opened) =>
           /\ Len(accessed) = Len(written) + 1
           /\ \A k \in 1..Len(written) :
                  \E f \in files : f.name = OutputName(pages[k] - 1, timestamp)
    /\ pc = "done" => Len(written) = Len(pages)

C10_Witness ==
    /\ pc = "failed"
    /\ error = "IndexError"
    /\ Len(pages) = 2
    /\ written = << 1 >>
    /\ accessed = << 1, 2 >>
    /\ Cardinality(files) = 1

=============================================================================
